---- MODULE Spec2Model ----
(***************************************************************************)
(* misoc/interconnect/csr_bus.py: the CSR bus.  One controller drives      *)
(* adr / we / dat_w to every responder; each responder (a CSRBank or an    *)
(* SRAM bridge) answers on dat_r, and the Interconnect merges the answers. *)
(*                                                                         *)
(* The logic is synchronous.  A step of the model is one clock edge.  The  *)
(* variable bus holds the signals the controller drove during the cycle    *)
(* the edge closed (the values every sync statement sampled), and the      *)
(* register variables hold their values after that edge, i.e. what the     *)
(* controller sees during the following cycle.                             *)
(***************************************************************************)
EXTENDS Integers, Sequences, FiniteSets, TLC

VARIABLES
    bus,          \* Interface signals adr, we, dat_w sampled by the last edge
    data_width,   \* flen(bus.dat_w), fixed by Interface(data_width=...)
    sram,         \* the SRAM bridge's construction parameters and constants
    mem,          \* the backing Memory: entry -> word
    wregs,        \* holding registers wregs[i+1] = source wregs[i]
    sel_r,        \* SRAM: sel delayed by one cycle
    word_index,   \* SRAM: adr[:word_bits] delayed by one cycle
    port_adr,     \* address the port presented in the sampled cycle
    port_dat_r,   \* the port's read data (sync read, write first)
    page,         \* self._page.storage
    banks,        \* the CSRBanks: sequence of [address, n]
    bank_dat_r,   \* per bank: the registered bus.dat_r
    csr_w,        \* per bank, per register: c.w during the sampled cycle
    csr_re,       \* per bank, per register: c.re during the sampled cycle
    wseq,         \* history: the in-order sub-word sequence in progress
    wsrc,         \* history: the entry each holding register was written for
    source,       \* CSRBankArray.source: the named children, in xdir order
    csr_lists,    \* per child: the list object its get_csrs works on
    array_banks,  \* CSRBankArray.banks
    array_srams,  \* CSRBankArray.srams
    submodules,   \* CSRBankArray.submodules
    calls,        \* history: the address_map calls of the latest scan
    nscan,        \* history: the number of scans so far
    policy,       \* CSRBankArray.address_map
    prev,         \* history: what the scan before the latest one produced
    generator,    \* Initiator.generator: the transactions still to come
    transaction,  \* Initiator.transaction
    read_data_ready, \* Initiator.read_data_ready
    done,         \* Initiator.done
    stopped,      \* StopSimulation was raised
    taken,        \* history: what next(generator) returned so far
    age,          \* history: steps since the last next(generator)
    captured      \* history: the read data stored into transactions

vars == <<bus, data_width, sram, mem, wregs, sel_r, word_index, port_adr,
          port_dat_r, page, banks, bank_dat_r, csr_w, csr_re, wseq, wsrc,
          source, csr_lists, array_banks, array_srams, submodules, calls,
          nscan, policy, prev, generator, transaction, read_data_ready, done,
          stopped, taken, age, captured>>

sramVars == <<mem, wregs, sel_r, word_index, port_adr, port_dat_r, wseq, wsrc>>
bankVars == <<bank_dat_r, csr_w, csr_re>>
initiatorVars == <<generator, transaction, read_data_ready, done, stopped,
                   taken, age, captured>>
arrayVars == <<source, csr_lists, array_banks, array_srams, submodules, calls,
               nscan, policy, prev>>

----------------------------------------------------------------------------
(* Bounds of the exploration and constants of the program.                 *)

\* Interface(address_width=14)
AddressWidth == 14

\* bus.adr[9:] is the responder's window number: a window is 2^9 addresses
WindowBits == 9

\* a responder alone is driven in windows 0..MaxWindow of the address
\* space, the interconnect in windows 0..MaxWindow+2
MaxWindow == 1

\* offsets 0..MaxOffset inside each window are driven
MaxOffset == 4

\* a bank holds 1..MaxRegs registers
MaxRegs == 3

AddressesIn(windows, offsets) ==
    { w * (2 ^ WindowBits) + l : w \in windows, l \in offsets }

\* a responder alone: every offset of its own window, two of each other
AloneAddresses(window) ==
    AddressesIn({window}, 0 .. MaxOffset)
        \cup AddressesIn((0 .. MaxWindow) \ {window}, {0, MaxOffset})

\* the interconnect: three offsets of every window
BusAddresses == AddressesIn(0 .. MaxWindow + 2, {0, 1, MaxOffset})

Bit == {0, 1}

\* every value of a signal of the given width
Values(width) == 0 .. (2 ^ width) - 1

----------------------------------------------------------------------------
(* Signal arithmetic of the hardware description library.                  *)

\* the Python slice x[lo:hi] of a signal
Bits(x, lo, hi) == IF hi > lo THEN (x \div (2 ^ lo)) % (2 ^ (hi - lo)) ELSE 0

\* log2_int(n, need_pow2=False): the least r with 2^r >= n
Log2Int(n) == CHOOSE r \in 0 .. 32 : 2 ^ r >= n /\ (r = 0 \/ 2 ^ (r - 1) < n)

\* log2_int(n) raises ValueError unless n is a power of two
IsPow2(n) == n >= 1 /\ 2 ^ Log2Int(n) = n

\* bits_for(n) for n >= 0
BitsFor(n) == IF n = 0 THEN 1 ELSE Log2Int(n + 1)

\* Cat(*chunks) of signals of one width: chunks[1] is the least significant
RECURSIVE Cat(_, _)
Cat(chunks, width) ==
    IF chunks = <<>> THEN 0
    ELSE Head(chunks) + (2 ^ width) * Cat(Tail(chunks), width)

\* reversed(list)
Reversed(s) == [i \in 1 .. Len(s) |-> s[Len(s) + 1 - i]]

----------------------------------------------------------------------------
(* SRAM.__init__: the constants fixed at construction.                     *)

CsrwPerMemw(width, dw) == (width + dw - 1) \div dw

WordBits(width, dw) == Log2Int(CsrwPerMemw(width, dw))

PageBits(width, depth, dw) == Log2Int((depth * CsrwPerMemw(width, dw) + 511) \div 512)

\* flen(port.adr): the port's address is Signal(max=depth)
PortAdrBits(depth) == BitsFor(depth - 1)

\* read_only taken from the argument alone
ReadOnly_ArgOnly(arg, attr) == arg = "True"

\* resolution of read_only: the argument, else mem.bus_read_only, else False
ReadOnly(arg, attr) ==
    IF arg # "None" THEN arg = "True"
    ELSE IF attr # "absent" THEN attr = "True"
    ELSE FALSE

\* the bridge built for a memory of width x depth at a bus address
MakeSRAM(width, depth, address, dw, ro_arg, ro_attr) ==
    [ present        |-> TRUE,
      width          |-> width,
      depth          |-> depth,
      address        |-> address,
      csrw_per_memw  |-> CsrwPerMemw(width, dw),
      word_bits      |-> WordBits(width, dw),
      page_bits      |-> PageBits(width, depth, dw),
      adr_bits       |-> PortAdrBits(depth),
      ro_arg         |-> ro_arg,
      ro_attr        |-> ro_attr,
      read_only      |-> ReadOnly(ro_arg, ro_attr) ]

\* no bridge on the bus
NoSRAM ==
    [ present |-> FALSE, width |-> 1, depth |-> 1, address |-> 0,
      csrw_per_memw |-> 1, word_bits |-> 0, page_bits |-> 0, adr_bits |-> 1,
      ro_arg |-> "True", ro_attr |-> "absent", read_only |-> TRUE ]

----------------------------------------------------------------------------
(* SRAM: the combinational signals, from the bus signals of a cycle.       *)

\* sel = (bus.adr[9:] == address)
SRAMSel(a) == sram.present /\ Bits(a, WindowBits, AddressWidth) = sram.address

\* bus.adr[:word_bits]
WordIdx(a) == Bits(a, 0, sram.word_bits)

\* port.adr with the page register as the low bits
PortAdr_PageLow(a, pv) ==
    IF sram.page_bits = 0
    THEN Bits(a, sram.word_bits, sram.word_bits + sram.adr_bits)
    ELSE Cat(<< pv, Bits(a, sram.word_bits,
                         sram.word_bits + sram.adr_bits - sram.page_bits) >>,
             sram.page_bits)

\* port.adr
PortAdr(a, pv) ==
    IF sram.page_bits = 0
    THEN Bits(a, sram.word_bits, sram.word_bits + sram.adr_bits)
    ELSE Cat(<< Bits(a, sram.word_bits,
                     sram.word_bits + sram.adr_bits - sram.page_bits), pv >>,
             sram.adr_bits - sram.page_bits)

\* port.we without the compare of the sub-word index
PortWe_AnySubWord(a, w) == ~sram.read_only /\ SRAMSel(a) /\ w = 1

\* port.we
PortWe(a, w) ==
    /\ ~sram.read_only
    /\ SRAMSel(a)
    /\ w = 1
    /\ (sram.word_bits = 0 \/ WordIdx(a) = sram.csrw_per_memw - 1)

\* the holding registers concatenated without reversed()
MemwordChunks_Unreversed(d) == <<d>> \o wregs

\* memword_chunks = [bus.dat_w] + list(reversed(wregs))
MemwordChunks(d) == <<d>> \o Reversed(wregs)

\* port.dat_w, a signal of mem.width bits
PortDatW(d) ==
    IF sram.word_bits = 0
    THEN d % (2 ^ sram.width)
    ELSE Cat(MemwordChunks(d), data_width) % (2 ^ sram.width)

\* a holding register that is cleared when it is not written
WregNext_Cleared(i, a, w, d) ==
    IF SRAMSel(a) /\ w = 1 /\ WordIdx(a) = i THEN d ELSE 0

\* wreg i (0-based) after the edge
WregNext(i, a, w, d) ==
    IF SRAMSel(a) /\ w = 1 /\ WordIdx(a) = i THEN d ELSE wregs[i + 1]

\* chooser without reverse=True
Chooser_Forward(word, idx) == Bits(word, idx * data_width, (idx + 1) * data_width)

\* chooser(word_expanded, word_index, bus.dat_r, n=csrw_per_memw, reverse=True)
Chooser(word, idx) ==
    Bits(word, (sram.csrw_per_memw - 1 - idx) * data_width,
               (sram.csrw_per_memw - idx) * data_width)

\* bus.dat_r driven without the If(sel_r, ...)
SRAMDatR_Ungated ==
    IF ~sram.present THEN 0
    ELSE IF sram.word_bits = 0 THEN port_dat_r % (2 ^ data_width)
    ELSE Chooser(port_dat_r, word_index)

\* the bridge's bus.dat_r in the cycle after the edge
SRAMDatR ==
    IF ~sram.present \/ ~sel_r THEN 0
    ELSE IF sram.word_bits = 0 THEN port_dat_r % (2 ^ data_width)
    ELSE Chooser(port_dat_r, word_index)

\* the Memory after the edge: a write beyond depth stores nothing
MemNext(a, w, d) ==
    IF PortWe(a, w) /\ PortAdr(a, page) < sram.depth
    THEN [mem EXCEPT ![PortAdr(a, page)] = PortDatW(d)]
    ELSE mem

----------------------------------------------------------------------------
(* History of the sub-word writes, kept beside the bridge.                 *)

NoSeq == [st |-> 0, e |-> 0, v |-> <<>>]

\* wseq.st = k <= n: the last k cycles wrote sub-words 0..k-1 of entry e,
\* with values v; wseq.st = n + j: then the next j cycles read sub-words
\* 0..j-1 of entry e.
WseqNext(a, w, d) ==
    LET n == sram.csrw_per_memw
        e == PortAdr(a, page)
        k == WordIdx(a)
        hit == SRAMSel(a) /\ e < sram.depth
    IN  IF hit /\ w = 1 /\ k = 0 /\ ~sram.read_only
        THEN [st |-> 1, e |-> e, v |-> <<d>>]
        ELSE IF /\ hit /\ w = 1 /\ wseq.st \in 1 .. n - 1
                /\ k = wseq.st /\ e = wseq.e
        THEN [st |-> wseq.st + 1, e |-> e, v |-> Append(wseq.v, d)]
        ELSE IF /\ hit /\ w = 0 /\ wseq.st \in n .. 2 * n - 1
                /\ k = wseq.st - n /\ e = wseq.e
        THEN [wseq EXCEPT !.st = wseq.st + 1]
        ELSE NoSeq

\* the entry addressed when holding register i was last written, or -1
WsrcNext(a, w) ==
    [i \in 1 .. Len(wsrc) |->
        IF SRAMSel(a) /\ w = 1 /\ WordIdx(a) = i - 1
        THEN PortAdr(a, page) ELSE wsrc[i]]

----------------------------------------------------------------------------
(* The clock edge of the bridge.                                           *)

SRAMSync(a, w, d) ==
    /\ sel_r' = SRAMSel(a)
    /\ word_index' = WordIdx(a)
    /\ wregs' = IF sram.read_only THEN wregs
                ELSE [i \in 1 .. Len(wregs) |-> WregNext(i - 1, a, w, d)]
    /\ mem' = MemNext(a, w, d)
    /\ port_adr' = PortAdr(a, page)
    /\ IF PortAdr(a, page) < sram.depth
       THEN port_dat_r' = mem'[PortAdr(a, page)]
       ELSE port_dat_r' \in Values(sram.width)

\* the history variables follow the bridge
History(a, w, d) ==
    /\ wseq' = WseqNext(a, w, d)
    /\ wsrc' = IF sram.read_only THEN wsrc ELSE WsrcNext(a, w)

\* the controller drives the bus for one cycle
Drive(a, w, d) == bus' = [adr |-> a, we |-> w, dat_w |-> d]

SRAMClock ==
    \E a \in AloneAddresses(sram.address), w \in Bit, d \in Values(data_width) :
        /\ Drive(a, w, d)
        /\ SRAMSync(a, w, d)
        /\ History(a, w, d)
        /\ UNCHANGED <<data_width, sram, page, banks, bankVars, arrayVars, initiatorVars>>

----------------------------------------------------------------------------
(* CSRBank: a bank is [address, n, paged]: n registers of the component,   *)
(* followed, when paged, by the page register of the component's bridge.   *)

\* len(self.simple_csrs)
NRegs(b) == banks[b].n + (IF banks[b].paged THEN 1 ELSE 0)

\* GenericBank.decode_bits, for a bank of n registers
DecodeBits(n) == Log2Int(n)

\* sel compared above decode_bits instead of above bit 9
BankSel_Decode(b, a) ==
    Bits(a, DecodeBits(NRegs(b)), AddressWidth) = banks[b].address

\* sel = (bus.adr[9:] == address)
BankSel(b, a) == Bits(a, WindowBits, AddressWidth) = banks[b].address

\* the index taken one bit wider than decode_bits
BankIdx_Wide(b, a) == Bits(a, 0, DecodeBits(NRegs(b)) + 1)

\* bus.adr[:self.decode_bits]
BankIdx(b, a) == Bits(a, 0, DecodeBits(NRegs(b)))

\* c.re without the qualification by bus.we
Re_NoWe(b, i, a, w) == BankSel(b, a) /\ BankIdx(b, a) = i

\* c.re of register i (0-based)
Re(b, i, a, w) == BankSel(b, a) /\ w = 1 /\ BankIdx(b, a) = i

\* c.r = bus.dat_w[:c.size]
CsrR(d, size) == Bits(d, 0, size)

\* bus.dat_r without the clearing assignment
BankDatRNext_Held(b, a, cw) ==
    IF BankSel(b, a) /\ BankIdx(b, a) < NRegs(b)
    THEN cw[b][BankIdx(b, a) + 1]
    ELSE bank_dat_r[b]

\* bus.dat_r after the edge: cleared, then the Case over the registers
BankDatRNext(b, a, cw) ==
    IF BankSel(b, a) /\ BankIdx(b, a) < NRegs(b)
    THEN cw[b][BankIdx(b, a) + 1]
    ELSE 0

\* c.w of every register during a cycle: any value for a register of the
\* component, the storage for the page register
RECURSIVE CsrInputs(_)
CsrInputs(k) ==
    IF k = 0 THEN { <<>> }
    ELSE { Append(s, f \o (IF banks[k].paged THEN <<page>> ELSE <<>>)) :
             s \in CsrInputs(k - 1),
             f \in [1 .. banks[k].n -> Values(data_width)] }

BankSync(a, w, cw) ==
    /\ csr_w' = cw
    /\ csr_re' = [b \in DOMAIN banks |->
                    [i \in 1 .. NRegs(b) |-> IF Re(b, i - 1, a, w) THEN 1 ELSE 0]]
    /\ bank_dat_r' = [b \in DOMAIN banks |-> BankDatRNext(b, a, cw)]

\* CSRStorage of the page register: storage takes r when re is asserted
PageSync(a, w, d) ==
    page' = IF \E b \in DOMAIN banks : banks[b].paged /\ Re(b, NRegs(b) - 1, a, w)
            THEN CsrR(d, sram.page_bits)
            ELSE page

BankClock ==
    \E cw \in CsrInputs(Len(banks)) :
        \E a \in AloneAddresses(banks[1].address), w \in Bit,
           d \in Values(data_width) :
            /\ Drive(a, w, d)
            /\ BankSync(a, w, cw)
            /\ UNCHANGED <<data_width, sram, page, banks, sramVars, arrayVars, initiatorVars>>

----------------------------------------------------------------------------
(* Interconnect: master.connect of the slaves.  Every responder samples the *)
(* same adr / we / dat_w; the master's dat_r is the OR of the responders'. *)

RECURSIVE BitOr(_, _)
BitOr(x, y) ==
    IF x = 0 THEN y
    ELSE IF y = 0 THEN x
    ELSE (IF x % 2 = 1 \/ y % 2 = 1 THEN 1 ELSE 0) + 2 * BitOr(x \div 2, y \div 2)

RECURSIVE OrBanks(_)
OrBanks(k) == IF k = 0 THEN 0 ELSE BitOr(bank_dat_r[k], OrBanks(k - 1))

\* the controller's bus.dat_r
MasterDatR == BitOr(SRAMDatR, OrBanks(Len(banks)))

BusClock ==
    \E cw \in CsrInputs(Len(banks)) :
        \E a \in BusAddresses, w \in Bit, d \in Values(data_width) :
            /\ Drive(a, w, d)
            /\ SRAMSync(a, w, d)
            /\ BankSync(a, w, cw)
            /\ PageSync(a, w, d)
            /\ UNCHANGED <<data_width, sram, banks, wseq, wsrc, arrayVars, initiatorVars>>

----------------------------------------------------------------------------
(* A bridge alone on the bus.                                              *)

\* the memories bridged: (width, depth) in bus words
SRAMShapes == { <<2, 2>>, <<4, 2>>, <<1, 2>> }

SRAMStart(s) ==
    /\ bus = [adr |-> 0, we |-> 0, dat_w |-> 0]
    /\ sram = s
    /\ mem = [e \in 0 .. s.depth - 1 |-> 0]
    /\ wregs = [i \in 1 .. s.csrw_per_memw - 1 |-> 0]
    /\ sel_r = FALSE
    /\ word_index = 0
    /\ port_adr = 0
    /\ port_dat_r = 0
    /\ page = 0
    /\ wseq = NoSeq
    /\ wsrc = [i \in 1 .. s.csrw_per_memw - 1 |-> -1]

\* Transaction objects: TRead(address), TWrite(address, data); NoTransaction
\* is None
TRead(address) == [kind |-> "read", address |-> address, data |-> 0]
TWrite(address, data) == [kind |-> "write", address |-> address, data |-> data]
NoTransaction == [kind |-> "none", address |-> 0, data |-> 0]

\* no Initiator on the bus
NoInitiator ==
    /\ generator = <<>>
    /\ transaction = NoTransaction
    /\ read_data_ready = FALSE
    /\ done = FALSE
    /\ stopped = FALSE
    /\ taken = <<>>
    /\ age = 0
    /\ captured = <<>>

\* no CSRBankArray beside the bus
NoArray ==
    /\ source = <<>>
    /\ csr_lists = <<>>
    /\ array_banks = <<>>
    /\ array_srams = <<>>
    /\ submodules = <<>>
    /\ calls = <<>>
    /\ nscan = 0
    /\ policy = [kind |-> "map", skip |-> {}]
    /\ prev = [calls |-> <<>>, banks |-> <<>>, srams |-> <<>>]

NoBanks ==
    /\ banks = <<>>
    /\ bank_dat_r = <<>>
    /\ csr_w = <<>>
    /\ csr_re = <<>>

InitSRAM ==
    /\ NoArray
    /\ NoInitiator
    /\ data_width = 1
    /\ \E shape \in SRAMShapes :
          SRAMStart(MakeSRAM(shape[1] * data_width, shape[2], 1, data_width,
                             "None", "absent"))
    /\ NoBanks

NextSRAM == SRAMClock

SpecSRAM == InitSRAM /\ [][NextSRAM]_vars

----------------------------------------------------------------------------
(* A bridge alone on the bus, built with every combination of the          *)
(* read_only argument and the memory's bus_read_only attribute.            *)

ReadOnlyArgs == { "None", "True", "False" }
ReadOnlyAttrs == { "absent", "True", "False" }

InitRO ==
    /\ NoArray
    /\ NoInitiator
    /\ data_width = 1
    /\ \E shape \in { <<2, 2>>, <<1, 2>> }, arg \in ReadOnlyArgs,
          attr \in ReadOnlyAttrs :
          SRAMStart(MakeSRAM(shape[1] * data_width, shape[2], 1, data_width,
                             arg, attr))
    /\ NoBanks

NextRO == SRAMClock

SpecRO == InitRO /\ [][NextRO]_vars

----------------------------------------------------------------------------
(* A bank alone on the bus, at window 0, of one to MaxRegs registers.       *)

BanksStart(bs) ==
    /\ banks = bs
    /\ bank_dat_r = [b \in DOMAIN bs |-> 0]
    /\ csr_w = [b \in DOMAIN bs |->
                  [i \in 1 .. bs[b].n + (IF bs[b].paged THEN 1 ELSE 0) |-> 0]]
    /\ csr_re = [b \in DOMAIN bs |->
                  [i \in 1 .. bs[b].n + (IF bs[b].paged THEN 1 ELSE 0) |-> 0]]

Bank(address, n, paged) == [address |-> address, n |-> n, paged |-> paged]

InitBank ==
    /\ NoArray
    /\ NoInitiator
    /\ data_width = 1
    /\ SRAMStart(NoSRAM)
    /\ \E n \in 1 .. MaxRegs : BanksStart(<< Bank(0, n, FALSE) >>)

NextBank == BankClock

SpecBank == InitBank /\ [][NextBank]_vars

----------------------------------------------------------------------------
(* The interconnect: a bank at window 0, a bridge at window 1, a bank at   *)
(* window 2, nothing above.                                                *)

InitBus ==
    /\ NoArray
    /\ NoInitiator
    /\ data_width = 1
    /\ \E shape \in { <<1, 2>>, <<2, 2>> } :
          SRAMStart(MakeSRAM(shape[1] * data_width, shape[2], 1, data_width,
                             "None", "absent"))
    /\ BanksStart(<< Bank(0, 2, FALSE), Bank(2, 1, FALSE) >>)

NextBus == BusClock

SpecBus == InitBus /\ [][NextBus]_vars


----------------------------------------------------------------------------
(* A paged bridge: a read-only memory of more than 512 transfers at window *)
(* 1, and at window 0 the bank that holds its page register.               *)

\* the memories bridged: (width, depth) in bus words
PagedShapes ==
    { <<4, 256>>, <<4, 512>>, <<2, 512>>, <<1, 1024>>, <<1, 2048>>, <<1, 1100>> }

InitPage ==
    /\ NoArray
    /\ NoInitiator
    /\ data_width = 2
    /\ \E shape \in PagedShapes :
          SRAMStart(MakeSRAM(shape[1] * data_width, shape[2], 1, data_width,
                             "True", "absent"))
    /\ BanksStart(<< Bank(0, 0, TRUE) >>)

NextPage == BusClock

SpecPage == InitPage /\ [][NextPage]_vars

----------------------------------------------------------------------------
(* Signals of the sampled cycle, read off the bus as the claims name them. *)

\* the sub-words per memory word
N == sram.csrw_per_memw

\* the bridge was addressed in the sampled cycle
Addressed == sram.present /\ bus.adr \div 512 = sram.address

\* the sub-word index the sampled address carried
SubWord == bus.adr % N

\* slice s of a memory word, counted from the least significant end
Slice(word, s) == (word \div (2 ^ (data_width * s))) % (2 ^ data_width)

\* the word whose most significant slice is v[1]
RECURSIVE MsbFirst(_)
MsbFirst(v) ==
    IF v = <<>> THEN 0
    ELSE Head(v) * (2 ^ (data_width * (Len(v) - 1))) + MsbFirst(Tail(v))

----------------------------------------------------------------------------
C2_ReadMapping ==
    (Addressed /\ port_adr < sram.depth) =>
        SRAMDatR = Slice(mem[port_adr], N - 1 - SubWord)

\* a read of sub-word 0 returns the most significant slice, and only it
C2_Witness ==
    /\ N = 4
    /\ Addressed /\ bus.we = 0 /\ SubWord = 0
    /\ mem[port_adr] = 8
    /\ SRAMDatR = 1

(* C3: the memory changes in a cycle only if the bridge is addressed with  *)
(* write_enable = 1 and sub-word index n-1; a write of a sub-word 0..n-2   *)
(* updates the holding register of that index and no memory word.          *)
C3_WriteOnlyOnLast ==
    [][ (sram.present /\ N > 1) =>
          /\ mem' # mem => (Addressed' /\ bus'.we = 1 /\ SubWord' = N - 1)
          /\ (Addressed' /\ bus'.we = 1 /\ SubWord' < N - 1) =>
                /\ mem' = mem
                /\ wregs' = [wregs EXCEPT ![SubWord' + 1] = bus'.dat_w] ]_vars

\* the final sub-word was written and the memory word changed
C3_Witness ==
    /\ N = 4
    /\ Addressed /\ bus.we = 1 /\ SubWord = 3
    /\ mem[port_adr] = 5
    /\ wregs = <<0, 1, 0>>

(* C4: torn write.  A write of a sub-word 0..n-2 of entry E1 writes no     *)
(* memory word; the holding register keeps the value whatever is addressed *)
(* afterwards, until that index is written again; and a write of the final *)
(* sub-word at another entry E2 stores the held values at E2.              *)
C4_TornWrite ==
    [][ (sram.present /\ N > 1) =>
          /\ (Addressed' /\ bus'.we = 1 /\ SubWord' < N - 1) => mem' = mem
          /\ \A i \in 0 .. N - 2 :
                ~(Addressed' /\ bus'.we = 1 /\ SubWord' = i) =>
                    wregs'[i + 1] = wregs[i + 1] /\ wsrc'[i + 1] = wsrc[i + 1]
          /\ (Addressed' /\ bus'.we = 1 /\ SubWord' = N - 1
                /\ port_adr' < sram.depth) =>
                \A i \in 0 .. N - 2 :
                    Slice(mem'[port_adr'], N - 1 - i) = wregs[i + 1] ]_vars

\* entry 1 took the value held for entry 0, which itself was never written
C4_Witness ==
    /\ N = 2
    /\ Addressed /\ bus.we = 1 /\ SubWord = 1 /\ port_adr = 1
    /\ wsrc[1] = 0
    /\ wseq.st = 0
    /\ mem[1] = 2 + bus.dat_w
    /\ mem[0] = 0

----------------------------------------------------------------------------
(* Signals of the banks, read off the bus as the claims name them.         *)

\* bank b was addressed in the sampled cycle
BankAddressed(b) == bus.adr \div 512 = banks[b].address

\* the register index the sampled address carried
RegIndex(b) == bus.adr % (2 ^ DecodeBits(NRegs(b)))

\* the registers of bank b whose write strobe was asserted
Strobed(b) == { i \in 0 .. NRegs(b) - 1 : csr_re[b][i + 1] = 1 }

(* C5: register bank read path.  The bank's read_data in the cycle after   *)
(* an address is the readable value, as of the address cycle, of the       *)
(* register the low decode_bits name when the bank was selected, and zero  *)
(* when it was not; this holds in every cycle, so a stable address keeps   *)
(* read_data at the register's value.                                      *)
C5_BankRead ==
    \A b \in DOMAIN banks :
        /\ (BankAddressed(b) /\ RegIndex(b) < NRegs(b)) =>
               bank_dat_r[b] = csr_w[b][RegIndex(b) + 1]
        /\ ~BankAddressed(b) => bank_dat_r[b] = 0

\* register 2 of three was read and only it held a one
C5_Witness ==
    /\ NRegs(1) = 3
    /\ BankAddressed(1) /\ bus.we = 0 /\ RegIndex(1) = 2
    /\ csr_w[1] = <<0, 0, 1>>
    /\ bank_dat_r[1] = 1

(* C6: on the interconnect, with pairwise distinct responder addresses, a  *)
(* responder's read_data is non-zero only if it was selected the cycle     *)
(* before, so at most one responder contributes to the merge; an address   *)
(* outside every window gives the controller an all-zero read_data.        *)
C6_OneDriver ==
    /\ SRAMDatR # 0 => Addressed
    /\ \A b \in DOMAIN banks : bank_dat_r[b] # 0 => BankAddressed(b)
    /\ Cardinality({ b \in DOMAIN banks : bank_dat_r[b] # 0 })
          + (IF SRAMDatR # 0 THEN 1 ELSE 0) <= 1
    /\ (~Addressed /\ \A b \in DOMAIN banks : ~BankAddressed(b)) => MasterDatR = 0

\* an unmapped address reads zero although every responder holds ones
C6_Witness ==
    /\ bus.adr \div 512 = 3
    /\ csr_w[1] = <<1, 1>> /\ csr_w[2] = <<1>>
    /\ port_dat_r # 0
    /\ MasterDatR = 0

(* C7: register write strobe.  The strobe of register i of a bank was      *)
(* asserted in a cycle iff write_enable = 1, the bank was selected and the *)
(* low decode_bits equal i; so at most one bank is selected, at most one   *)
(* strobe is asserted, and none when write_enable = 0.                     *)
C7_WriteStrobe ==
    /\ \A b \in DOMAIN banks : \A i \in 0 .. NRegs(b) - 1 :
          csr_re[b][i + 1] = 1 <=>
              (bus.we = 1 /\ BankAddressed(b) /\ RegIndex(b) = i)
    /\ Cardinality({ b \in DOMAIN banks : BankAddressed(b) }) <= 1
    /\ Cardinality({ <<b, i>> \in (DOMAIN banks) \X (0 .. MaxRegs) :
                        i < NRegs(b) /\ csr_re[b][i + 1] = 1 }) <= 1
    /\ bus.we = 0 => \A b \in DOMAIN banks : Strobed(b) = {}

\* register 1 of the first bank was strobed, and nothing else
C7_Witness ==
    /\ bus.we = 1 /\ bus.adr = 1
    /\ csr_re[1] = <<0, 1>>
    /\ csr_re[2] = <<0>>

(* C8 as claimed: for every address that selects a bank, the index decode  *)
(* selects exactly one register of the bank, for the write strobe and for  *)
(* the read data.                                                          *)
C8_ExactlyOne ==
    \A b \in DOMAIN banks :
        BankAddressed(b) =>
            \E i \in 0 .. NRegs(b) - 1 :
                /\ bus.we = 1 => Strobed(b) = {i}
                /\ bank_dat_r[b] = csr_w[b][i + 1]

(* C8 amended: the index decode selects at most one register; it selects   *)
(* the register the low decode_bits name when that index is below the      *)
(* register count and none (no strobe, read_data zero) otherwise; a bank   *)
(* whose register count is a power of two selects exactly one.             *)
C8_AtMostOne ==
    \A b \in DOMAIN banks :
        BankAddressed(b) =>
            /\ Cardinality(Strobed(b)) <= 1
            /\ RegIndex(b) < NRegs(b) =>
                  /\ bus.we = 1 => Strobed(b) = {RegIndex(b)}
                  /\ bank_dat_r[b] = csr_w[b][RegIndex(b) + 1]
            /\ RegIndex(b) >= NRegs(b) =>
                  Strobed(b) = {} /\ bank_dat_r[b] = 0
            /\ IsPow2(NRegs(b)) => RegIndex(b) < NRegs(b)

\* index 3 of a bank of three registers: no strobe, read_data zero
C8_Witness ==
    /\ NRegs(1) = 3
    /\ BankAddressed(1) /\ bus.we = 1 /\ bus.adr % 4 = 3
    /\ Strobed(1) = {}
    /\ csr_w[1] = <<1, 1, 1>>
    /\ bank_dat_r[1] = 0

(* C9 as claimed: a bank is selected exactly when the address bits above   *)
(* its low decode_bits equal its address, a bridge exactly when the bits   *)
(* above its low word_index_bits + ceil(log2(depth)) do.                   *)
C9_DecodeWindow ==
    /\ \A b \in DOMAIN banks :
          BankSel(b, bus.adr) <=>
              bus.adr \div (2 ^ DecodeBits(NRegs(b))) = banks[b].address
    /\ sel_r <=>
          bus.adr \div (2 ^ (sram.word_bits + Log2Int(sram.depth))) = sram.address

(* C9 amended: a bank and a bridge are each selected exactly when address  *)
(* bits 9 and up equal the assigned address.  Inside the window a bank     *)
(* decodes only the low decode_bits and a bridge only the sub-word index   *)
(* and the memory address bits, so two bus addresses select the same       *)
(* register or memory sub-word exactly when they lie in the responder's    *)
(* window and agree in those low bits.                                     *)
C9_Window ==
    /\ \A b \in DOMAIN banks :
          /\ BankSel(b, bus.adr) <=> bus.adr \div 512 = banks[b].address
          /\ \A i \in 0 .. NRegs(b) - 1 :
                (bus.we = 1 => (csr_re[b][i + 1] = 1 <=>
                    (bus.adr \div 512 = banks[b].address /\ RegIndex(b) = i)))
    /\ sel_r <=> bus.adr \div 512 = sram.address
    /\ word_index = bus.adr % N
    /\ port_adr = (bus.adr \div N) % (2 ^ sram.adr_bits)
    /\ \A a \in BusAddresses :
          /\ \A b \in DOMAIN banks : \A i \in 0 .. NRegs(b) - 1 :
                (Re(b, i, a, 1) /\ Re(b, i, bus.adr, 1)) <=>
                    /\ a \div 512 = banks[b].address
                    /\ bus.adr \div 512 = banks[b].address
                    /\ a % (2 ^ DecodeBits(NRegs(b))) = i
                    /\ RegIndex(b) = i
          /\ (SRAMSel(a) /\ sel_r /\ WordIdx(a) = word_index
                /\ PortAdr(a, page) = port_adr) <=>
                    /\ a \div 512 = sram.address
                    /\ bus.adr \div 512 = sram.address
                    /\ a % (N * (2 ^ sram.adr_bits))
                          = bus.adr % (N * (2 ^ sram.adr_bits))

\* offset 4 of the first bank's window strobes register 0, as offset 0 does
C9_Witness ==
    /\ bus.adr = 4 /\ bus.we = 1
    /\ NRegs(1) = 2
    /\ csr_re[1] = <<1, 0>>
    /\ Re(1, 0, 0, 1)

(* C10: paging.  The address presented to the memory is the page register  *)
(* as the high bits over the bus address bits from word_index_bits up as   *)
(* the low bits; the same bus address under two page values addresses two  *)
(* memory words; consecutive page values lie 512 transfers apart.          *)
FlatTransfer(pa, a) == (pa * N) + (a % N)

----------------------------------------------------------------------------
(* CSRBankArray: scan walks the children of source, asks address_map for   *)
(* an address for every memory and every non-empty register list, and     *)
(* builds a bridge or a bank where the answer is not None.                 *)

\* address_map's answer for an object that is not to be mapped
None == -1

\* the children of source number 1..MaxChildren
MaxChildren == 2

\* scan runs at most MaxScans times, the constructor's call included
MaxScans == 3

\* a child of source: has_csrs / has_mems say whether it has get_csrs /
\* get_memories; own is the number of registers of its own; shared says
\* that get_csrs hands out the child's own list object, not a fresh list;
\* mems is what get_memories returns, paged marking a memory whose bridge
\* has a page register
Child(has_csrs, own, shared, has_mems, mems) ==
    [has_csrs |-> has_csrs, own |-> own, shared |-> shared,
     has_mems |-> has_mems, mems |-> mems]

Paged == [paged |-> TRUE]
Flat == [paged |-> FALSE]

ChildKinds ==
    { Child(FALSE, 0, FALSE, FALSE, <<>>),
      Child(TRUE, 1, FALSE, FALSE, <<>>),
      Child(TRUE, 0, FALSE, FALSE, <<>>),
      Child(FALSE, 0, FALSE, TRUE, <<Flat>>),
      Child(FALSE, 0, FALSE, TRUE, <<Paged>>),
      Child(TRUE, 1, FALSE, TRUE, <<Paged, Flat>>),
      Child(TRUE, 0, TRUE, TRUE, <<Paged>>),
      Child(TRUE, 1, TRUE, TRUE, <<Flat, Paged>>),
      Child(FALSE, 0, FALSE, TRUE, <<>>) }

Sources == UNION { [1 .. n -> ChildKinds] : n \in 1 .. MaxChildren }

\* the registers a child declares itself
OwnCsrs(src, c) == [i \in 1 .. src[c].own |-> <<"csr", 0, c, i>>]

\* the page register of the bridge scan k builds for memory j of child c
PageReg(k, c, j) == <<"page", k, c, j>>

\* the objects address_map can be asked about: <<c, j>> is memory j of
\* child c, <<c, 0>> the register bank of child c
Objects(src) ==
    { <<c, j>> \in (DOMAIN src) \X (0 .. 2) :
        \/ j = 0 /\ (src[c].has_csrs \/ src[c].has_mems)
        \/ j >= 1 /\ src[c].has_mems /\ j <= Len(src[c].mems) }

RECURSIVE ScanMemories(_, _, _, _, _, _)

\* a policy answers None for at most MaxSkips objects
MaxSkips == 1

\* the policies, each skipping some objects: "map" is a pure mapping of
\* the object, "counter" hands out the number of addresses handed out
\* since the scan began, "once" is "map" in the first scan and answers
\* None ever after
Policies(src) ==
    [kind : {"map", "counter", "once"},
     skip : { S \in SUBSET Objects(src) : Cardinality(S) <= MaxSkips }]

\* address_map(name, memory) in scan k; next is the policy's counter
AddressMap(pol, obj, next, k) ==
    IF obj \in pol.skip \/ (pol.kind = "once" /\ k > 1) THEN None
    ELSE IF pol.kind = "counter" THEN next
    ELSE obj[1] * 4 + obj[2]

\* the inner loop without csrs += mmap.get_csrs()
ScanMemories_NoCollect(src, pol, k, c, j, acc) ==
    IF j > Len(src[c].mems) THEN acc
    ELSE
        LET mapaddr == AddressMap(pol, <<c, j>>, acc.next, k)
            called == [acc EXCEPT !.calls = Append(@, <<c, j>>)]
            mmap == [id |-> <<"mmap", k, c, j>>,
                     csrs |-> IF src[c].mems[j].paged
                              THEN << PageReg(k, c, j) >> ELSE <<>>]
        IN  IF mapaddr = None
            THEN ScanMemories(src, pol, k, c, j + 1, called)
            ELSE ScanMemories(src, pol, k, c, j + 1,
                    [called EXCEPT
                        !.next = @ + 1,
                        !.subs = Append(@, mmap.id),
                        !.srams = Append(@, [name |-> c, memory |-> <<c, j>>,
                                             mapaddr |-> mapaddr,
                                             mmap |-> mmap])])

\* the inner loop leaving at the first None, as break would
ScanMemories_SkipBreaks(src, pol, k, c, j, acc) ==
    IF j > Len(src[c].mems) THEN acc
    ELSE
        LET mapaddr == AddressMap(pol, <<c, j>>, acc.next, k)
            called == [acc EXCEPT !.calls = Append(@, <<c, j>>)]
            mmap == [id |-> <<"mmap", k, c, j>>,
                     csrs |-> IF src[c].mems[j].paged
                              THEN << PageReg(k, c, j) >> ELSE <<>>]
        IN  IF mapaddr = None
            THEN called
            ELSE ScanMemories(src, pol, k, c, j + 1,
                    [called EXCEPT
                        !.next = @ + 1,
                        !.subs = Append(@, mmap.id),
                        !.csrs = @ \o mmap.csrs,
                        !.srams = Append(@, [name |-> c, memory |-> <<c, j>>,
                                             mapaddr |-> mapaddr,
                                             mmap |-> mmap])])

\* the inner loop of scan, from memory j of child c on
ScanMemories(src, pol, k, c, j, acc) ==
    IF j > Len(src[c].mems) THEN acc
    ELSE
        LET mapaddr == AddressMap(pol, <<c, j>>, acc.next, k)
            called == [acc EXCEPT !.calls = Append(@, <<c, j>>)]
            mmap == [id |-> <<"mmap", k, c, j>>,
                     csrs |-> IF src[c].mems[j].paged
                              THEN << PageReg(k, c, j) >> ELSE <<>>]
        IN  IF mapaddr = None
            THEN ScanMemories(src, pol, k, c, j + 1, called)
            ELSE ScanMemories(src, pol, k, c, j + 1,
                    [called EXCEPT
                        !.next = @ + 1,
                        !.subs = Append(@, mmap.id),
                        !.csrs = @ \o mmap.csrs,
                        !.srams = Append(@, [name |-> c, memory |-> <<c, j>>,
                                             mapaddr |-> mapaddr,
                                             mmap |-> mmap])])

\* the outer loop's body leaving out a child whose bank the scan before
\* already made a sub-module
ScanChild_SkipsBuilt(src, pol, k, c, acc) ==
    LET obj == src[c]
        start == [acc EXCEPT !.csrs = IF obj.has_csrs THEN acc.lists[c] ELSE <<>>]
        walked == IF obj.has_mems THEN ScanMemories(src, pol, k, c, 1, start)
                  ELSE start
        kept == [walked EXCEPT !.lists[c] =
                    IF obj.has_csrs /\ obj.shared THEN walked.csrs ELSE @]
        mapaddr == AddressMap(pol, <<c, 0>>, kept.next, k)
        called == [kept EXCEPT !.calls = Append(@, <<c, 0>>)]
        built == \E i \in DOMAIN acc.subs : acc.subs[i] = <<"rmap", k - 1, c, 0>>
    IN  IF kept.csrs = <<>> \/ built THEN kept
        ELSE IF mapaddr = None THEN called
        ELSE [called EXCEPT
                !.next = @ + 1,
                !.subs = Append(@, <<"rmap", k, c, 0>>),
                !.banks = Append(@, [name |-> c, csrs |-> kept.csrs,
                                     mapaddr |-> mapaddr,
                                     rmap |-> <<"rmap", k, c, 0>>])]

\* the outer loop's body asking for a bank address whatever csrs holds
ScanChild_AlwaysAsks(src, pol, k, c, acc) ==
    LET obj == src[c]
        start == [acc EXCEPT !.csrs = IF obj.has_csrs THEN acc.lists[c] ELSE <<>>]
        walked == IF obj.has_mems THEN ScanMemories(src, pol, k, c, 1, start)
                  ELSE start
        kept == [walked EXCEPT !.lists[c] =
                    IF obj.has_csrs /\ obj.shared THEN walked.csrs ELSE @]
        mapaddr == AddressMap(pol, <<c, 0>>, kept.next, k)
        called == [kept EXCEPT !.calls = Append(@, <<c, 0>>)]
    IN  IF mapaddr = None THEN called
        ELSE [called EXCEPT
                !.next = @ + 1,
                !.subs = Append(@, <<"rmap", k, c, 0>>),
                !.banks = Append(@, [name |-> c, csrs |-> kept.csrs,
                                     mapaddr |-> mapaddr,
                                     rmap |-> <<"rmap", k, c, 0>>])]

\* the body of the outer loop for child c
ScanChild(src, pol, k, c, acc) ==
    LET obj == src[c]
        start == [acc EXCEPT !.csrs = IF obj.has_csrs THEN acc.lists[c] ELSE <<>>]
        walked == IF obj.has_mems THEN ScanMemories(src, pol, k, c, 1, start)
                  ELSE start
        \* csrs += mmap.get_csrs() extends the list object in place
        kept == [walked EXCEPT !.lists[c] =
                    IF obj.has_csrs /\ obj.shared THEN walked.csrs ELSE @]
        mapaddr == AddressMap(pol, <<c, 0>>, kept.next, k)
        called == [kept EXCEPT !.calls = Append(@, <<c, 0>>)]
    IN  IF kept.csrs = <<>> THEN kept
        ELSE IF mapaddr = None THEN called
        ELSE [called EXCEPT
                !.next = @ + 1,
                !.subs = Append(@, <<"rmap", k, c, 0>>),
                !.banks = Append(@, [name |-> c, csrs |-> kept.csrs,
                                     mapaddr |-> mapaddr,
                                     rmap |-> <<"rmap", k, c, 0>>])]

RECURSIVE ScanChildren(_, _, _, _, _)

\* the outer loop visiting the later children first
ScanChildren_Reversed(src, pol, k, c, acc) ==
    IF c > Len(src) THEN acc
    ELSE ScanChild(src, pol, k, c, ScanChildren(src, pol, k, c + 1, acc))

\* the outer loop of scan, from child c on
ScanChildren(src, pol, k, c, acc) ==
    IF c > Len(src) THEN acc
    ELSE ScanChildren(src, pol, k, c + 1, ScanChild(src, pol, k, c, acc))

\* scan number k: banks and srams start empty, submodules is added to
ScanOutcome(src, lists, subs, pol, k) ==
    ScanChildren(src, pol, k, 1,
        [banks |-> <<>>, srams |-> <<>>, subs |-> subs, lists |-> lists,
         csrs |-> <<>>, calls |-> <<>>, next |-> 0])

\* the bus beside the array is idle
IdleBus ==
    /\ NoInitiator
    /\ data_width = 1
    /\ SRAMStart(NoSRAM)
    /\ NoBanks

\* CSRBankArray.__init__ runs the first scan
InitArray ==
    /\ IdleBus
    /\ \E src \in Sources : \E pol \in Policies(src) :
          LET r == ScanOutcome(src, [c \in DOMAIN src |-> OwnCsrs(src, c)],
                               <<>>, pol, 1)
          IN  /\ source = src
              /\ csr_lists = r.lists
              /\ array_banks = r.banks
              /\ array_srams = r.srams
              /\ submodules = r.subs
              /\ calls = r.calls
              /\ nscan = 1
              /\ policy = pol
              /\ prev = [calls |-> <<>>, banks |-> <<>>, srams |-> <<>>]

\* scan called again, with the address_map given at construction
Scan ==
    /\ nscan < MaxScans
    /\ LET r == ScanOutcome(source, csr_lists, submodules, policy, nscan + 1)
       IN  /\ csr_lists' = r.lists
           /\ array_banks' = r.banks
           /\ array_srams' = r.srams
           /\ submodules' = r.subs
           /\ calls' = r.calls
           /\ nscan' = nscan + 1
           /\ prev' = [calls |-> calls, banks |-> array_banks,
                       srams |-> array_srams]
    /\ UNCHANGED <<source, policy, bus, data_width, sram, page, banks, sramVars,
                   bankVars, initiatorVars>>

NextArray == Scan

SpecArray == InitArray /\ [][NextArray]_vars

----------------------------------------------------------------------------
\* the bridge was marked read-only at construction
MarkedReadOnly ==
    \/ sram.ro_arg = "True"
    \/ sram.ro_arg = "None" /\ sram.ro_attr = "True"

(* C11: read-only bridge.  A bridge built with read_only true, or with no  *)
(* read_only argument over a memory whose bus_read_only is true, never     *)
(* changes a word of the memory whatever the bus carries; a bridge neither *)
(* marks read-only is writable: a selected write of the last sub-word      *)
(* stores write_data in the addressed word.                                *)
C11_ReadOnly ==
    [][ /\ MarkedReadOnly => (sram.read_only /\ mem' = mem)
        /\ ~MarkedReadOnly =>
              /\ ~sram.read_only
              /\ (Addressed' /\ bus'.we = 1 /\ SubWord' = N - 1
                    /\ port_adr' < sram.depth) =>
                        mem'[port_adr'] % (2 ^ data_width) = bus'.dat_w ]_vars

\* a write of the last sub-word to a memory marked by its attribute
C11_Witness ==
    /\ sram.ro_arg = "None" /\ sram.ro_attr = "True"
    /\ N = 2
    /\ Addressed /\ bus.we = 1 /\ SubWord = 1 /\ bus.dat_w = 1
    /\ mem = [e \in 0 .. 1 |-> 0]

----------------------------------------------------------------------------
(* The latest scan, read off the array as the claims name it.              *)

\* how many times the latest scan asked address_map about obj
CallCount(obj) == Cardinality({ i \in DOMAIN calls : calls[i] = obj })

\* the bridges the latest scan built for child c
BridgesOf(c) == { i \in DOMAIN array_srams : array_srams[i].name = c }

\* child c's register list combined with its bridges' page registers is
\* not empty
HasCombinedCsrs(c) ==
    \/ source[c].has_csrs /\ csr_lists[c] # <<>>
    \/ \E i \in BridgesOf(c) : array_srams[i].mmap.csrs # <<>>

(* C12: in every scan address_map is called exactly once for each memory  *)
(* each child's get_memories returns, exactly once with memory None for    *)
(* each child whose combined register list is not empty, and for nothing   *)
(* else.                                                                    *)
C12_CalledOnce ==
    /\ \A i \in DOMAIN calls : calls[i] \in Objects(source)
    /\ \A obj \in Objects(source) :
          CallCount(obj) =
              IF obj[2] >= 1 \/ HasCombinedCsrs(obj[1]) THEN 1 ELSE 0

\* a child with no register of its own is asked for a bank address
\* because its bridge brought a page register; its neighbour is not
C12_Witness ==
    /\ Len(source) = 2
    /\ source[1] = Child(FALSE, 0, FALSE, TRUE, <<Paged>>)
    /\ source[2] = Child(TRUE, 0, FALSE, FALSE, <<>>)
    /\ nscan = 2
    /\ calls = << <<1, 1>>, <<1, 0>> >>

----------------------------------------------------------------------------
\* the policy that answers an address for obj and is policy otherwise
MappedInstead(obj) == [policy EXCEPT !.skip = @ \ {obj}]

\* the scan about to run, had the policy mapped obj
Instead(obj) ==
    ScanOutcome(source, csr_lists, submodules, MappedInstead(obj), nscan + 1)

\* the responder built for obj, if any, left out
OtherSrams(srams, obj) ==
    SelectSeq(srams, LAMBDA e : e.memory # obj)
OtherBanks(bs, obj) ==
    SelectSeq(bs, LAMBDA e : ~(obj[2] = 0 /\ e.name = obj[1]))

\* name and address of each bank
BankPlaces(bs) == [i \in DOMAIN bs |-> <<bs[i].name, bs[i].mapaddr>>]

\* obj is a memory whose bridge would bring a page register
IsPagedMemory(obj) == obj[2] >= 1 /\ source[obj[1]].mems[obj[2]].paged

\* no bridge, no bank and no collected page register for the skipped obj
NothingBuiltFor(obj, srams, bs) ==
    /\ \A i \in DOMAIN srams : srams[i].memory # obj
    /\ obj[2] = 0 => \A i \in DOMAIN bs : bs[i].name # obj[1]
    /\ obj[2] >= 1 => \A i \in DOMAIN bs : \A r \in DOMAIN bs[i].csrs :
          bs[i].csrs[r] # PageReg(nscan + 1, obj[1], obj[2])

(* C13 as claimed: for an object address_map skips, nothing is built, and  *)
(* the address_map calls and the responders of the other objects are the   *)
(* ones the scan would have made had the object been given an address.     *)
C13_SkipTransparent ==
    [][ policy.kind = "map" =>
          \A obj \in policy.skip :
              /\ NothingBuiltFor(obj, array_srams', array_banks')
              /\ calls' = Instead(obj).calls
              /\ OtherSrams(array_srams', obj) = OtherSrams(Instead(obj).srams, obj)
              /\ BankPlaces(OtherBanks(array_banks', obj))
                    = BankPlaces(OtherBanks(Instead(obj).banks, obj)) ]_vars

(* C13 amended: for an object address_map skips, nothing is built and no   *)
(* page register of a skipped memory is collected; the scan goes on, and   *)
(* the calls and responders of the other objects are the ones it would     *)
(* have made had the object been given an address, except for the bank of  *)
(* a skipped paged memory's own child: its register list lacks the page    *)
(* register, and when that leaves the list empty address_map is not asked  *)
(* for the bank and no bank is built.                                      *)
C13_Skip ==
    [][ policy.kind = "map" =>
          \A obj \in policy.skip :
              LET alt == Instead(obj)
                  c == obj[1]
                  notBank(e) == e # <<c, 0>>
                  notOfChild(e) == e.name # c
                  notPage(r) == r # PageReg(nscan + 1, c, obj[2])
              IN  /\ NothingBuiltFor(obj, array_srams', array_banks')
                  /\ OtherSrams(array_srams', obj) = OtherSrams(alt.srams, obj)
                  /\ IF IsPagedMemory(obj)
                     THEN /\ SelectSeq(calls', notBank) = SelectSeq(alt.calls, notBank)
                          /\ SelectSeq(array_banks', notOfChild)
                                = SelectSeq(alt.banks, notOfChild)
                          /\ \A i \in DOMAIN alt.banks :
                                alt.banks[i].name = c =>
                                    LET rest == SelectSeq(alt.banks[i].csrs, notPage)
                                    IN  IF rest = <<>>
                                        THEN /\ CallCount(<<c, 0>>)' = 0
                                             /\ \A b \in DOMAIN array_banks' :
                                                   array_banks'[b].name # c
                                        ELSE \E b \in DOMAIN array_banks' :
                                                /\ array_banks'[b].name = c
                                                /\ array_banks'[b].csrs = rest
                     ELSE /\ calls' = alt.calls
                          /\ OtherBanks(array_banks', obj) = OtherBanks(alt.banks, obj)
      ]_vars

\* the only memory of a child without registers is paged and skipped:
\* the scan asks once and builds nothing
C13_Witness ==
    /\ nscan = 2
    /\ policy = [kind |-> "map", skip |-> { <<1, 1>> }]
    /\ source[1] = Child(FALSE, 0, FALSE, TRUE, <<Paged>>)
    /\ Len(source) = 2 /\ source[2] = Child(TRUE, 1, FALSE, FALSE, <<>>)
    /\ calls = << <<1, 1>>, <<2, 0>> >>
    /\ Len(array_banks) = 1 /\ array_srams = <<>>

----------------------------------------------------------------------------
\* the banks the latest scan built for child c
BanksOf(c) == { i \in DOMAIN array_banks : array_banks[i].name = c }

\* register r is in the register list of bank i
InBank(r, i) == \E x \in DOMAIN array_banks[i].csrs : array_banks[i].csrs[x] = r

\* the bridges of the latest scan that have a page register
PagedBridges == { i \in DOMAIN array_srams : array_srams[i].mmap.csrs # <<>> }

(* C14 as claimed: after any scan, the page register of every bridge the   *)
(* scan built is in the register list of a bank the same scan built for    *)
(* the same child.                                                         *)
C14_PageInBank ==
    \A i \in PagedBridges :
        \E b \in BanksOf(array_srams[i].name) :
            InBank(array_srams[i].mmap.csrs[1], b)

(* C14 amended: after any scan, the page register of every bridge the scan *)
(* built is in the register list the scan asked address_map(child, None)   *)
(* about, and in the register list of the bank the same scan built for the *)
(* same child unless address_map answered None for that bank; then the     *)
(* scan built no bank for the child and no bank holds the page register.   *)
C14_PageInBankUnlessSkipped ==
    \A i \in PagedBridges :
        LET c == array_srams[i].name
            pagereg == array_srams[i].mmap.csrs[1]
        IN  /\ CallCount(<<c, 0>>) = 1
            /\ \A b \in BanksOf(c) : InBank(pagereg, b)
            /\ Cardinality(BanksOf(c)) = IF <<c, 0>> \in policy.skip THEN 0 ELSE 1
            /\ BanksOf(c) = {} =>
                  \A b \in DOMAIN array_banks : ~InBank(pagereg, b)

\* a paged bridge was built and the policy skipped its child's bank
C14_Witness ==
    /\ source = << Child(FALSE, 0, FALSE, TRUE, <<Paged>>) >>
    /\ policy = [kind |-> "map", skip |-> { <<1, 0>> }]
    /\ nscan = 2
    /\ calls = << <<1, 1>>, <<1, 0>> >>
    /\ Len(array_srams) = 1 /\ array_srams[1].mmap.csrs = << PageReg(2, 1, 1) >>
    /\ array_banks = <<>>

----------------------------------------------------------------------------
\* get_rmaps, get_mmaps and get_buses; a bus is named by its responder
GetRmaps == [i \in DOMAIN array_banks |-> array_banks[i].rmap]
GetMmaps == [i \in DOMAIN array_srams |-> array_srams[i].mmap.id]
GetBuses == GetRmaps \o GetMmaps

\* the elements of a sequence
Range(seq) == { seq[i] : i \in DOMAIN seq }

(* C15: after a re-scan the bank list, the bridge list, the buses of       *)
(* get_buses and the array's sub-modules are exactly the banks and bridges *)
(* the latest scan produced, none of an earlier scan remaining.            *)
C15_Discards ==
    /\ \A m \in Range(GetBuses) : m[2] = nscan
    /\ Range(submodules) = Range(GetBuses)

----------------------------------------------------------------------------
\* the (child name, assigned address) pairs of a bank or bridge list
Places(list) == { <<list[i].name, list[i].mapaddr>> : i \in DOMAIN list }

(* C16: with a policy that is a pure mapping of (name, memory) and an      *)
(* unchanged tree, a re-scan yields the same set of (child name, address)  *)
(* pairs for banks and for bridges as the scan before it.                  *)
C16_Idempotent ==
    (nscan >= 2 /\ policy.kind = "map") =>
        /\ Places(array_banks) = Places(prev.banks)
        /\ Places(array_srams) = Places(prev.srams)

\* the third scan of a child whose page register made its bank
C16_Witness ==
    /\ nscan = 3
    /\ policy = [kind |-> "map", skip |-> {}]
    /\ source = << Child(TRUE, 0, TRUE, TRUE, <<Paged>>) >>
    /\ Places(array_banks) = { <<1, 4>> }
    /\ Places(array_srams) = { <<1, 5>> }
    /\ Places(prev.banks) = { <<1, 4>> }

----------------------------------------------------------------------------
(* SRAM.__init__ over memories of every shape: entries of 1 to             *)
(* 2^MaxWordBits bus words, 1 to MaxDepth entries.                         *)

MaxWordBits == 9
MaxDepth == 16

\* the memory handed to the constructor: width in bits, depth in entries
Construct ==
    /\ ~sram.present
    /\ \E wb \in 0 .. MaxWordBits, depth \in 1 .. MaxDepth, address \in 0 .. 1 :
          LET s == MakeSRAM((2 ^ wb) * data_width, depth, address, data_width,
                            "None", "absent")
          IN  /\ sram' = s
              /\ mem' = [e \in 0 .. s.depth - 1 |-> 0]
              /\ wregs' = [i \in 1 .. s.csrw_per_memw - 1 |-> 0]
              /\ wsrc' = [i \in 1 .. s.csrw_per_memw - 1 |-> -1]
    /\ UNCHANGED <<bus, data_width, sel_r, word_index, port_adr, port_dat_r,
                   page, wseq, banks, bankVars, arrayVars, initiatorVars>>

InitConstruct ==
    /\ NoArray
    /\ IdleBus

NextConstruct == Construct

SpecConstruct == InitConstruct /\ [][NextConstruct]_vars

\* the bus address bits the bridge takes the sub-word index from
IndexField == 0 .. sram.word_bits - 1

\* the bus address bits the bridge takes the memory address from
AddressField ==
    sram.word_bits .. sram.word_bits + sram.adr_bits - sram.page_bits - 1

\* the bus address bits the bridge compares with its address
SelectField == WindowBits .. AddressWidth - 1

(* C17: for every memory a bridge can be built for, the bus address bits   *)
(* of the sub-word index, of the memory address and of the selection are   *)
(* pairwise disjoint, and the page register bits and the bus-derived bits  *)
(* make up the memory address without overlap.                             *)
C17_Partition ==
    sram.present =>
        /\ IndexField \cap AddressField = {}
        /\ IndexField \cap SelectField = {}
        /\ AddressField \cap SelectField = {}
        /\ sram.page_bits <= sram.adr_bits
        /\ \A a \in { 2 ^ i : i \in 0 .. AddressWidth - 1 },
              pv \in { 2 ^ i : i \in 0 .. sram.page_bits - 1 } :
                PortAdr(a, pv) = PortAdr(a, 0) + PortAdr(0, pv)

----------------------------------------------------------------------------
\* the place of an object in the order of the walk: children in xdir
\* order, a child's memories in get_memories order, then its bank
Rank(obj) == obj[1] * 4 + (IF obj[2] = 0 THEN 3 ELSE obj[2])

\* the calls of the latest scan follow the walk
InWalkOrder == \A i, j \in DOMAIN calls : i < j => Rank(calls[i]) < Rank(calls[j])

\* the addresses a list of banks or bridges was given, in order
Addresses(list) == [i \in DOMAIN list |-> <<list[i].name, list[i].mapaddr>>]

\* address_map skipped the same objects in the latest two scans
SameSkips == policy.kind # "once" \/ nscan >= 3

(* C18 as claimed: the calls follow the walk (children in order, each      *)
(* child's memories in order and before its bank), hence any two scans of  *)
(* the same tree make the same sequence of calls, and a counter policy     *)
(* reset before each scan assigns the same addresses.                      *)
C18_SameCalls ==
    /\ InWalkOrder
    /\ nscan >= 2 => calls = prev.calls
    /\ (nscan >= 2 /\ policy.kind = "counter") =>
          /\ Addresses(array_banks) = Addresses(prev.banks)
          /\ Addresses(array_srams) = Addresses(prev.srams)

(* C18 amended: the calls follow the walk; hence two scans of the same     *)
(* tree in which address_map skips the same objects make the same sequence *)
(* of calls, and a counter policy reset before each scan assigns the same  *)
(* addresses.                                                              *)
C18_CallOrder ==
    /\ InWalkOrder
    /\ (nscan >= 2 /\ SameSkips) => calls = prev.calls
    /\ (nscan >= 2 /\ policy.kind = "counter") =>
          /\ Addresses(array_banks) = Addresses(prev.banks)
          /\ Addresses(array_srams) = Addresses(prev.srams)

\* a counter policy over two children: four calls, addresses 0 to 3
C18_Witness ==
    /\ nscan = 2
    /\ policy = [kind |-> "counter", skip |-> {}]
    /\ source = << Child(TRUE, 1, FALSE, TRUE, <<Paged, Flat>>),
                   Child(TRUE, 1, FALSE, FALSE, <<>>) >>
    /\ calls = << <<1, 1>>, <<1, 2>>, <<1, 0>>, <<2, 0>> >>
    /\ Addresses(array_srams) = << <<1, 0>>, <<1, 1>> >>
    /\ Addresses(array_banks) = << <<1, 2>>, <<2, 3>> >>
    /\ Addresses(prev.banks) = << <<1, 2>>, <<2, 3>> >>

----------------------------------------------------------------------------
\* the register counts of the banks a list holds for child c
BankSizes(list, c) == { Len(list[i].csrs) : i \in { x \in DOMAIN list : list[x].name = c } }

(* C19: scan leaves the component tree alone: after any number of scans    *)
(* the register list each child's get_csrs hands out is the child's own    *)
(* (no page register of its bridges was added to it), so the register list *)
(* and decode_bits of a child's bank are the same in every scan.           *)
C19_NoSideEffect ==
    /\ \A c \in DOMAIN source : csr_lists[c] = OwnCsrs(source, c)
    /\ (nscan >= 2 /\ SameSkips) =>
          \A c \in DOMAIN source :
              /\ BankSizes(array_banks, c) = BankSizes(prev.banks, c)
              /\ { DecodeBits(n) : n \in BankSizes(array_banks, c) }
                    = { DecodeBits(n) : n \in BankSizes(prev.banks, c) }

----------------------------------------------------------------------------
(* Initiator: do_simulation is called once per step of the simulation; it  *)
(* reads bus.dat_r and writes bus.adr, bus.we and bus.dat_w, which keep    *)
(* what was last written to them.                                          *)

\* a generator yields at most MaxTransactions items
MaxTransactions == 3

\* what a generator can yield: a read, a write, or None for an idle step
Yields ==
    { TRead(a) : a \in 0 .. 1 }
        \cup { TWrite(a, d) : a \in 0 .. 1, d \in Values(1) }
        \cup { NoTransaction }

Generators == UNION { [1 .. n -> Yields] : n \in 0 .. MaxTransactions }

IsRead(t) == t.kind = "read"
IsWrite(t) == t.kind = "write"

\* bus.we left as it is when a write completes
WeAfter_Kept(t, we) == we

\* bus.we once the transaction in flight has been dealt with
WeAfter(t, we) == IF IsWrite(t) THEN 0 ELSE we

\* self.transaction once the transaction in flight has been dealt with
TransactionAfter(t, rdy) ==
    IF IsRead(t) /\ ~rdy THEN t ELSE NoTransaction

\* self.read_data_ready once the transaction in flight has been dealt with
ReadyAfter(t, rdy) == IF IsRead(t) THEN ~rdy ELSE rdy

\* the bus signals a newly fetched transaction drives
Driven(t, b) ==
    IF IsRead(t) THEN [b EXCEPT !.adr = t.address]
    ELSE IF IsWrite(t) THEN [adr |-> t.address, we |-> 1, dat_w |-> t.data]
    ELSE b

\* one call of do_simulation, dat_r being the value of bus.dat_r
DoSimulation ==
    /\ ~done /\ ~stopped
    /\ \E dat_r \in Values(data_width) :
          LET capture == IsRead(transaction) /\ read_data_ready
              t1 == TransactionAfter(transaction, read_data_ready)
              b1 == [bus EXCEPT !.we = WeAfter(transaction, bus.we)]
          IN  /\ read_data_ready' = ReadyAfter(transaction, read_data_ready)
              /\ captured' = IF capture
                             THEN Append(captured,
                                         [index |-> Len(taken),
                                          transaction |-> [transaction EXCEPT !.data = dat_r],
                                          dat_r |-> dat_r, age |-> age + 1])
                             ELSE captured
              /\ IF t1 # NoTransaction
                 THEN /\ transaction' = t1
                      /\ bus' = b1
                      /\ age' = age + 1
                      /\ UNCHANGED <<generator, taken, stopped>>
                 ELSE IF generator = <<>>
                 THEN /\ transaction' = NoTransaction
                      /\ stopped' = TRUE
                      /\ bus' = b1
                      /\ age' = age + 1
                      /\ UNCHANGED <<generator, taken>>
                 ELSE /\ transaction' = Head(generator)
                      /\ generator' = Tail(generator)
                      /\ taken' = Append(taken, Head(generator))
                      /\ bus' = Driven(Head(generator), b1)
                      /\ age' = 0
                      /\ UNCHANGED stopped
    /\ UNCHANGED <<done, data_width, sram, page, banks, sramVars, bankVars,
                   arrayVars>>

InitInitiator ==
    /\ NoArray
    /\ data_width = 1
    /\ SRAMStart(NoSRAM)
    /\ NoBanks
    /\ generator \in Generators
    /\ transaction = NoTransaction
    /\ read_data_ready = FALSE
    /\ done = FALSE
    /\ stopped = FALSE
    /\ taken = <<>>
    /\ age = 0
    /\ captured = <<>>

NextInitiator == DoSimulation

SpecInitiator == InitInitiator /\ [][NextInitiator]_vars

\* what the bus and the Initiator show after a step
DriverRules ==
    /\ transaction # NoTransaction =>
          (taken # <<>> /\ transaction = taken[Len(taken)])
    /\ IsWrite(transaction) =>
          /\ age = 0
          /\ bus = [adr |-> transaction.address, we |-> 1,
                    dat_w |-> transaction.data]
    /\ bus.we = 1 => IsWrite(transaction)
    /\ IsRead(transaction) =>
          /\ bus.we = 0 /\ bus.adr = transaction.address
          /\ age \in 0 .. 1
          /\ read_data_ready <=> age = 1
    /\ \A i \in DOMAIN captured :
          /\ IsRead(taken[captured[i].index])
          /\ captured[i].transaction.address = taken[captured[i].index].address
          /\ captured[i].transaction.data = captured[i].dat_r
          /\ captured[i].age = 2
          /\ \A j \in DOMAIN captured : i < j => captured[i].index < captured[j].index
    /\ Len(captured) =
          Cardinality({ i \in DOMAIN taken :
                          IsRead(taken[i]) /\ (i < Len(taken) \/ ~IsRead(transaction)) })

(* C20: the Initiator takes the transactions from the generator in order,  *)
(* one at a time.  A write is in flight for one step, with its address and *)
(* data driven and write_enable 1; write_enable is 1 in no other step.  A  *)
(* read is in flight for two steps with its address driven and             *)
(* write_enable 0, and its data is taken from read_data in the second step *)
(* after the one that drove the address, before the next transaction is    *)
(* fetched.                                                                *)
C20_Sequencing ==
    [][ /\ taken' \o generator' = taken \o generator
        /\ Len(taken') <= Len(taken) + 1
        /\ (transaction # NoTransaction /\ transaction' # transaction) =>
              (IsWrite(transaction) \/ read_data_ready)
        /\ DriverRules' ]_vars

\* a write, then a read that captured a one, then a write in flight
C20_Witness ==
    /\ taken = << TWrite(1, 1), TRead(0), TWrite(0, 0) >>
    /\ transaction = TWrite(0, 0)
    /\ bus = [adr |-> 0, we |-> 1, dat_w |-> 0]
    /\ Len(captured) = 1 /\ captured[1].transaction = [TRead(0) EXCEPT !.data = 1]
    /\ captured[1].index = 2

====
